---- MODULE Spec2Model ----
(***************************************************************************)
(* Model of the session-manager HLS gateway (src/server.js, second file    *)
(* of the concatenation: lines 398-906).                                   *)
(*                                                                         *)
(* The server is a single-threaded event loop: every handler (request,     *)
(* child-process 'close' event, setInterval callback) runs to completion,  *)
(* so each handler is one atomic action.  What is asynchronous is the      *)
(* order in which handlers run: probe completions, transcoder exits,       *)
(* readiness-poll ticks, eviction ticks and new requests interleave        *)
(* freely.                                                                 *)
(*                                                                         *)
(* Clock unit: two hours (TIMEOUT_MS is one unit).  The readiness poll's   *)
(* attempt counter is not stored: a timer's deadline is an event that may  *)
(* happen once every timer that was armed earlier with a deadline at least *)
(* as short has been cleared (see DeadlineReached).                        *)
(***************************************************************************)
EXTENDS Integers, Sequences, FiniteSets, TLC

\* ---------------------------------------------------------------- bounds
MaxReq == 2          \* /start requests accepted in one behaviour
MaxAtt == 3          \* startEncodingProcess invocations in one behaviour
MaxNow == 2          \* last clock value

\* ------------------------------------------------------ program constants
TIMEOUT_MS == 1      \* 2 * 60 * 60 * 1000 ms, in clock units of two hours

SessionIds == {"s1"}
UrlSeq     == <<"u1", "u2">>
Urls       == {UrlSeq[i] : i \in 1..Len(UrlSeq)}
NoUrl      == "null"
Missing    == "undefined"   \* a query parameter that is absent

\* A string the server takes apart or puts together is a sequence of
\* pieces: a title is a sequence of characters, a template literal is the
\* sequence of its literal chunks and interpolated values.
\* one audio stream of ffprobe's -show_streams output: codec_name,
\* tags.language (Missing if absent) and tags.title (<<>> if absent or empty)
AudioTag(codec, lang, title) ==
    [codec_type |-> "audio", codec_name |-> codec, lang |-> lang, title |-> title]

\* the streams array: the video stream, if any, then the audio streams;
\* index is the position in the source
Streams(v, audio) ==
    LET head == IF v = Missing THEN <<>>
                ELSE << [codec_type |-> "video", codec_name |-> v,
                         lang |-> Missing, title |-> <<>>] >>
        all  == head \o audio
    IN  [k \in 1..Len(all) |->
            [codec_type |-> all[k].codec_type, codec_name |-> all[k].codec_name,
             lang |-> all[k].lang, title |-> all[k].title, index |-> k - 1]]

\* what a run of ffprobe yields: its exit code, whether its output parses
\* as JSON with a streams array, and the streams
Report(code, json, v, audio) ==
    [code |-> code, json |-> json, streams |-> Streams(v, audio)]

\* the reports the probes of the session manager's behaviours draw from
ProbeReports ==
    { Report(0, TRUE, "h264", <<AudioTag("aac", "eng", <<>>)>>),
      Report(0, TRUE, "mpeg2video", <<AudioTag("dts", Missing, <<>>)>>),
      Report(1, FALSE, Missing, <<>>) }

VARIABLES
    sessions,    \* the Map: session id -> session object id, 0 = no entry
    objs,        \* session objects: [process, url, lastPing]
    dirExists,   \* session id -> does <hlsBaseDir>/<id> exist on disk
    playlist,    \* session id -> attempt whose transcoder wrote main.m3u8, 0 = no file
    reqs,        \* /start requests, in arrival order
    atts,        \* startEncodingProcess invocations, in creation order
    now,         \* Date.now()
    built,       \* the startEncodingProcess invocation whose ffmpegArgs are
                 \* inspected (ArgSpec); NoBuild in Spec
    mux,         \* the subtitle-muxing server (src/unnamed/part_002): its
                 \* globals, requests and attempts (MuxSpec)
    dog          \* the single-stream watchdog server (src/server.js:1-397):
                 \* its globals, requests and transcoders (DogSpec)

vars == <<sessions, objs, dirExists, playlist, reqs, atts, now, built, mux, dog>>

ReqIds == 1..Len(reqs)
AttIds == 1..Len(atts)

\* no invocation under inspection
NoBuild == [stage |-> "none"]

\* the subtitle-muxing server after start-up: let ffmpegProcess = null;
\* let watchdogTimer = null; nothing requested, hls directory without
\* playlist.  checkPlaylist is global.checkPlaylist; handles and timers are
\* attempt ids, 0 = null.
NoMux ==
    [ffmpegProcess |-> 0, watchdogTimer |-> FALSE, checkPlaylist |-> 0,
     playlist |-> FALSE, reqs |-> <<>>, atts |-> <<>>]

\* the watchdog server after start-up: let ffmpegProcess = null;
\* let watchdogTimer = null.  watchdogTimer is the clock value at which the
\* timeout fires, 0 = null; seen is the clock value at which the last
\* /start or /ping was received.
NoDog ==
    [ffmpegProcess |-> 0, watchdogTimer |-> 0, playlist |-> FALSE,
     clock |-> 0, seen |-> 0, reqs |-> <<>>, atts |-> <<>>]

\* the session object literal of the /start handler
NewSession == [process |-> 0, url |-> NoUrl, lastPing |-> now]

\* an object slot nothing refers to yet
NoSession == [process |-> 0, url |-> NoUrl, lastPing |-> 0]

\* const mode = tryDirectMode ? "DIRECT (Copy)" : "TRANSCODE"
mode(tryDirectMode) == IF tryDirectMode THEN "DIRECT (Copy)" ELSE "TRANSCODE"

\* const maxAttempts = tryDirectMode ? 20 : 240
maxAttempts(tryDirectMode) == IF tryDirectMode THEN 20 ELSE 240

\* process.kill('SIGKILL'): a running child dies with exit code null; a child
\* that is already dead is not affected.  p = 0 is "no handle".
Kill(as, p) ==
    IF p # 0 /\ as[p].st = "running"
    THEN [as EXCEPT ![p].st = "dead", ![p].code = "null"]
    ELSE as

\* startEncodingProcess(tryDirectMode), up to the spawn of the probe
NewAttempt(r, tryDirectMode) ==
    [req |-> r, direct |-> tryDirectMode, st |-> "probing", code |-> "none",
     timer |-> FALSE]

\* res.writeHead(...); res.end(...) of a /start request
Respond(rs, r, status, m, sid) ==
    [rs EXCEPT ![r].res = status, ![r].mode = m, ![r].pl = playlist[sid]]

\* a response object that never reports its headers as sent
headersNeverSent(r) == FALSE

\* res.headersSent
headersSent(r) == reqs[r].res # "none"

Init ==
    /\ sessions = [s \in SessionIds |-> 0]
    /\ objs = [o \in 1..MaxReq |-> NoSession]
    /\ dirExists = [s \in SessionIds |-> FALSE]
    /\ playlist = [s \in SessionIds |-> 0]
    /\ reqs = <<>>
    /\ atts = <<>>
    /\ now = 0
    /\ built = NoBuild
    /\ mux = NoMux
    /\ dog = NoDog

\* ------------------------------------------------------------- /start
\* the smart check with the process test inverted
SmartCheckInverted(s, videoUrl) == s.process = 0 /\ s.url = videoUrl

\* SMART CHECK: if (session.process && session.url === videoUrl)
SmartCheck(s, videoUrl) == s.process # 0 /\ s.url = videoUrl

\* Cleanup previous stream: session.process = null; session.url = null
\* (only inside if (session.process))
CleanupPrevious(s) ==
    IF s.process # 0 THEN [s EXCEPT !.process = 0, !.url = NoUrl] ELSE s

\* URLs are opaque strings that the server only compares for equality, so
\* behaviours are listed up to renaming: the k-th distinct URL that is
\* requested is called UrlSeq[k]
CanonicalUrl(videoUrl) ==
    \A i \in 1..Len(UrlSeq) :
        videoUrl = UrlSeq[i] =>
            \A j \in 1..(i - 1) : \E q \in ReqIds : reqs[q].url = UrlSeq[j]

\* the earlier requests of a session whose probe is still in flight
Probing(sessionId) ==
    {q \in ReqIds : reqs[q].sid = sessionId
                     /\ \E a \in AttIds : atts[a].req = q /\ atts[a].st = "probing"}

\* the validation testing the session parameter only
BadRequestSessionOnly(sessionId, videoUrl) == sessionId = Missing

\* if (!videoUrl || !sessionId)
BadRequest(sessionId, videoUrl) == videoUrl = Missing \/ sessionId = Missing

\* GET /start with a parameter missing: 400, return.  The request is listed
\* in reqs with its response; it has no session object and no attempt.
StartBad(sessionId, videoUrl) ==
    LET rec == [sid |-> sessionId, url |-> videoUrl, isTV |-> FALSE, obj |-> 0,
                res |-> "400", mode |-> "none", pl |-> 0, overlaps |-> {}]
    IN  /\ Len(reqs) < MaxReq
        /\ CanonicalUrl(videoUrl)
        /\ BadRequest(sessionId, videoUrl)
        /\ reqs' = Append(reqs, rec)
        /\ UNCHANGED <<sessions, objs, dirExists, playlist, atts, now, built, mux, dog>>

\* GET /start?url=<videoUrl>&session=<sessionId>, both parameters present.
\* transcode is the query parameter transcode=true, which the handler does
\* not read.
\* Of a request the model keeps its parameters, the session object its
\* closures hold (obj), the response (res, mode), and two records of the
\* moment: the writer of main.m3u8 when the response was sent (pl) and the
\* requests that were still probing when this one arrived (overlaps).
Start(sessionId, videoUrl, isTV, transcode) ==
    LET r     == Len(reqs) + 1
        fresh == sessions[sessionId] = 0
        o     == IF fresh THEN r ELSE sessions[sessionId]
        s     == IF fresh THEN NewSession ELSE [objs[o] EXCEPT !.lastPing = now]
        rec   == [sid |-> sessionId, url |-> videoUrl, isTV |-> isTV, obj |-> o,
                  res |-> "none", mode |-> "none", pl |-> 0,
                  overlaps |-> Probing(sessionId)]
    IN  /\ ~BadRequest(sessionId, videoUrl)
        /\ Len(reqs) < MaxReq
        /\ CanonicalUrl(videoUrl)
        /\ sessions' = [sessions EXCEPT ![sessionId] = o]
        /\ dirExists' = IF fresh THEN [dirExists EXCEPT ![sessionId] = TRUE]
                        ELSE dirExists
        /\ UNCHANGED <<now, built, mux, dog>>
        /\ IF SmartCheck(s, videoUrl)
           THEN /\ reqs' = Respond(Append(reqs, rec), r, "resumed", "none", sessionId)
                /\ objs' = [objs EXCEPT ![o] = s]
                /\ UNCHANGED <<atts, playlist>>
           ELSE /\ Len(atts) < MaxAtt
                /\ reqs' = Append(reqs, rec)
                /\ objs' = [objs EXCEPT ![o] = CleanupPrevious(s)]
                \* Clear Session Directory, then startEncodingProcess(isTV)
                /\ playlist' = [playlist EXCEPT ![sessionId] = 0]
                /\ atts' = Append(Kill(atts, s.process), NewAttempt(r, isTV))

\* ------------------------------------------- startEncodingProcess, later
\* probe.on('close') with the report pd: build the arguments from it, then
\* session.url = videoUrl; session.process = spawn('ffmpeg', ffmpegArgs)
\* and arm the readiness poll.  The report only shapes the arguments; the
\* transcoder is spawned whatever it says.
ProbeClose(a, pd) ==
    LET r == atts[a].req
        o == reqs[r].obj
    IN  /\ atts[a].st = "probing"
        /\ objs' = [objs EXCEPT ![o].url = reqs[r].url, ![o].process = a]
        /\ atts' = [atts EXCEPT ![a].st = "running", ![a].timer = TRUE]
        /\ UNCHANGED <<sessions, dirExists, playlist, reqs, now, built, mux, dog>>

\* the transcoder writes the master playlist into hlsDir
ProcWrite(a) ==
    LET sid == reqs[atts[a].req].sid
    IN  /\ atts[a].st = "running"
        /\ dirExists[sid]
        /\ playlist[sid] # a
        /\ playlist' = [playlist EXCEPT ![sid] = a]
        /\ UNCHANGED <<sessions, objs, dirExists, reqs, atts, now, built, mux, dog>>

\* the transcoder terminates by itself with an exit code
ProcExit(a, code) ==
    /\ atts[a].st = "running"
    /\ atts' = [atts EXCEPT ![a].st = "dead", ![a].code = code]
    /\ UNCHANGED <<sessions, objs, dirExists, playlist, reqs, now, built, mux, dog>>

\* an exit handler that forgets to clear the handle
CloseClearUrlOnly(s) == [s EXCEPT !.url = NoUrl]

\* session.process = null; session.url = null  (first lines of on('close'))
CloseClear(s) == [s EXCEPT !.process = 0, !.url = NoUrl]

\* tryDirectMode && code !== 0 && !res.headersSent
CloseFallback(a) ==
    atts[a].direct /\ atts[a].code # "0" /\ ~headersSent(atts[a].req)

\* session.process.on('close', (code) => ...)
ProcClose(a) ==
    LET r      == atts[a].req
        o      == reqs[r].obj
        closed == [atts EXCEPT ![a].st = "closed", ![a].code = "none"]
    IN  /\ atts[a].st = "dead"
        /\ objs' = [objs EXCEPT ![o] = CloseClear(objs[o])]
        /\ IF CloseFallback(a)
           THEN /\ Len(atts) < MaxAtt
                /\ atts' = Append(closed, NewAttempt(r, FALSE))
                /\ reqs' = reqs
           ELSE /\ atts' = closed
                /\ reqs' = IF atts[a].code # "0" /\ ~headersSent(r)
                           THEN Respond(reqs, r, "error", "none", reqs[r].sid)
                           ELSE reqs
        /\ UNCHANGED <<sessions, dirExists, playlist, now, built, mux, dog>>

\* a poll without an attempt limit
DeadlineNever(a) == FALSE

\* attempts >= maxAttempts: timers tick every 500 ms from the moment they
\* are armed, so a timer armed earlier with no larger maxAttempts reaches
\* its deadline (and is cleared, one way or the other) first
DeadlineReached(a) ==
    \A b \in 1..(a - 1) :
        atts[b].timer => maxAttempts(atts[b].direct) > maxAttempts(atts[a].direct)

\* checkPlaylist tick, branch fs.existsSync(main.m3u8)
TimerReady(a) ==
    LET r   == atts[a].req
        sid == reqs[r].sid
    IN  /\ atts[a].timer
        /\ playlist[sid] # 0
        /\ atts' = [atts EXCEPT ![a].timer = FALSE]
        /\ reqs' = IF ~headersSent(r)
                   THEN Respond(reqs, r, "started", mode(atts[a].direct), sid)
                   ELSE reqs
        /\ UNCHANGED <<sessions, objs, dirExists, playlist, now, built, mux, dog>>

\* checkPlaylist tick, branch attempts >= maxAttempts
TimerTimeout(a) ==
    LET r      == atts[a].req
        o      == reqs[r].obj
        sid    == reqs[r].sid
        killed == [Kill(atts, objs[o].process) EXCEPT ![a].timer = FALSE]
    IN  /\ atts[a].timer
        /\ playlist[sid] = 0
        /\ DeadlineReached(a)
        /\ objs' = [objs EXCEPT ![o].process = 0]
        /\ IF atts[a].direct /\ ~headersSent(r)
           THEN /\ Len(atts) < MaxAtt
                /\ atts' = Append(killed, NewAttempt(r, FALSE))
                /\ reqs' = reqs
           ELSE /\ atts' = killed
                /\ reqs' = IF ~atts[a].direct /\ ~headersSent(r)
                           THEN Respond(reqs, r, "error", "none", sid)
                           ELSE reqs
        /\ UNCHANGED <<sessions, dirExists, playlist, now, built, mux, dog>>

\* ------------------------------------------------------ /stop and /ping
\* a /stop that kills the transcoder and leaves handle and URL in place
StopKillOnly(sessionId) ==
    LET o == sessions[sessionId]
    IN  /\ o # 0
        /\ atts' = Kill(atts, objs[o].process)
        /\ UNCHANGED <<sessions, objs, dirExists, playlist, reqs, now, built, mux, dog>>

\* a /stop that also deletes the entry and its directory
StopDeleting(sessionId) ==
    LET o == sessions[sessionId]
    IN  /\ o # 0
        /\ atts' = Kill(atts, objs[o].process)
        /\ objs' = [objs EXCEPT ![o].process = 0, ![o].url = NoUrl]
        /\ sessions' = [sessions EXCEPT ![sessionId] = 0]
        /\ dirExists' = [dirExists EXCEPT ![sessionId] = FALSE]
        /\ playlist' = [playlist EXCEPT ![sessionId] = 0]
        /\ UNCHANGED <<reqs, now, built, mux, dog>>

\* GET /stop?session=<sessionId>; the handler answers StopStatus.  For an id
\* that is not in the table the handler changes nothing.
Stop(sessionId) ==
    LET o == sessions[sessionId]
    IN  /\ atts' = IF o # 0 THEN Kill(atts, objs[o].process) ELSE atts
        /\ objs' = IF o # 0 THEN [objs EXCEPT ![o].process = 0, ![o].url = NoUrl]
                   ELSE objs
        /\ UNCHANGED <<sessions, dirExists, playlist, reqs, now, built, mux, dog>>

\* res.writeHead(200); res.end('Stopped'), whatever the session id
StopStatus(sessionId) == 200

\* a /ping that writes a stale time
PingStale(sessionId) ==
    LET o == sessions[sessionId]
    IN  /\ objs' = IF o # 0 THEN [objs EXCEPT ![o].lastPing = 0] ELSE objs
        /\ UNCHANGED <<sessions, dirExists, playlist, reqs, atts, now, built, mux, dog>>

\* GET /ping?session=<sessionId>; the handler answers PingStatus.  For an id
\* that is not in the table the handler changes nothing.
Ping(sessionId) ==
    LET o == sessions[sessionId]
    IN  /\ objs' = IF o # 0 THEN [objs EXCEPT ![o].lastPing = now] ELSE objs
        /\ UNCHANGED <<sessions, dirExists, playlist, reqs, atts, now, built, mux, dog>>

\* res.writeHead(200); res.end('Pong'), whatever the session id
PingStatus(sessionId) == 200

\* ------------------------------------------------- Session Cleanup Job
\* an expiry test that fires at the timeout itself
ExpiredAtTimeout(sid) ==
    sessions[sid] # 0 /\ now - objs[sessions[sid]].lastPing >= TIMEOUT_MS

\* now - session.lastPing > TIMEOUT_MS
Expired(sid) ==
    sessions[sid] # 0 /\ now - objs[sessions[sid]].lastPing > TIMEOUT_MS

\* an eviction that sends no kill signal
KillNone(as, S) == as

RECURSIVE KillAll(_, _)
KillAll(as, S) ==
    IF S = {} THEN as
    ELSE LET sid == CHOOSE x \in S : TRUE
         IN  KillAll(Kill(as, objs[sessions[sid]].process), S \ {sid})

\* a cleanup job that forgets fs.rmSync
EvictKeepingDir ==
    LET victims == {sid \in SessionIds : Expired(sid)}
    IN  /\ victims # {}
        /\ atts' = KillAll(atts, victims)
        /\ sessions' = [sid \in SessionIds |->
                           IF sid \in victims THEN 0 ELSE sessions[sid]]
        /\ UNCHANGED <<objs, dirExists, playlist, reqs, now, built, mux, dog>>

\* the setInterval callback: every expired entry is killed, its directory
\* removed and the entry deleted
Evict ==
    LET victims == {sid \in SessionIds : Expired(sid)}
    IN  /\ victims # {}
        /\ atts' = KillAll(atts, victims)
        /\ dirExists' = [sid \in SessionIds |-> dirExists[sid] /\ sid \notin victims]
        /\ playlist' = [sid \in SessionIds |->
                           IF sid \in victims THEN 0 ELSE playlist[sid]]
        /\ sessions' = [sid \in SessionIds |->
                           IF sid \in victims THEN 0 ELSE sessions[sid]]
        /\ UNCHANGED <<objs, reqs, now, built, mux, dog>>

\* time passes
Tick ==
    /\ now < MaxNow
    /\ now' = now + 1
    /\ UNCHANGED <<sessions, objs, dirExists, playlist, reqs, atts, built, mux, dog>>

Next ==
    \/ \E sid \in SessionIds \cup {Missing}, u \in Urls \cup {Missing},
          tv \in BOOLEAN, tr \in BOOLEAN : Start(sid, u, tv, tr)
    \/ \E sid \in SessionIds \cup {Missing}, u \in Urls \cup {Missing} :
           StartBad(sid, u)
    \/ \E a \in AttIds, pd \in ProbeReports : ProbeClose(a, pd)
    \/ \E a \in AttIds : ProcWrite(a)
    \/ \E a \in AttIds, code \in {"0", "1"} : ProcExit(a, code)
    \/ \E a \in AttIds : ProcClose(a)
    \/ \E a \in AttIds : TimerReady(a)
    \/ \E a \in AttIds : TimerTimeout(a)
    \/ \E sid \in SessionIds : Stop(sid)
    \/ \E sid \in SessionIds : Ping(sid)
    \/ Evict
    \/ Tick

Spec == Init /\ [][Next]_vars

\* ===================================================================
\* The argument list of the transcoder (probe.on('close'), first half)
\* ===================================================================
\* [a-zA-Z0-9]
Alnum ==
    {"a", "b", "c", "d", "e", "f", "g", "h", "i", "j", "k", "l", "m",
     "n", "o", "p", "q", "r", "s", "t", "u", "v", "w", "x", "y", "z",
     "A", "B", "C", "D", "E", "F", "G", "H", "I", "J", "K", "L", "M",
     "N", "O", "P", "Q", "R", "S", "T", "U", "V", "W", "X", "Y", "Z",
     "0", "1", "2", "3", "4", "5", "6", "7", "8", "9"}

\* `Track ${i + 1}`
TrackTitle(i) == <<"T", "r", "a", "c", "k", " ", ToString(i + 1)>>

\* `Audio_${i + 1}`
AudioTitle(i) == <<"A", "u", "d", "i", "o", "_", ToString(i + 1)>>

\* the body of probe.on('close') up to the catch: codecName and audioStreams
ParseProbe(pd) ==
    IF pd.code = 0 /\ pd.json
    THEN LET video == SelectSeq(pd.streams, LAMBDA s : s.codec_type = "video")
             audio == SelectSeq(pd.streams, LAMBDA s : s.codec_type = "audio")
         IN  [codecName |->
                  IF video # <<>> /\ video[1].codec_name # Missing
                  THEN video[1].codec_name ELSE "unknown",
              audioStreams |->
                  [k \in 1..Len(audio) |->
                      [index |-> audio[k].index,
                       streamIndex |-> k - 1,
                       lang |-> IF audio[k].lang # Missing
                                THEN audio[k].lang ELSE "und",
                       title |-> IF audio[k].title # <<>>
                                 THEN audio[k].title ELSE TrackTitle(k - 1)]]]
    ELSE [codecName |-> "unknown", audioStreams |-> <<>>]

\* .replace(/[^a-zA-Z0-9]/g, '_')
Underscored(title) ==
    [k \in 1..Len(title) |-> IF title[k] \in Alnum THEN title[k] ELSE "_"]

\* .replace(/^_+|_+$/g, '')
Trimmed(title) ==
    LET keep == {k \in 1..Len(title) : title[k] # "_"}
    IN  IF keep = {} THEN <<>>
        ELSE SubSeq(title, CHOOSE k \in keep : \A j \in keep : k <= j,
                           CHOOSE k \in keep : \A j \in keep : k >= j)

\* a title used as it is
rawTitle(audio, i) == audio.title

\* const safeTitle = (audio.title || `Audio_${i + 1}`).replace(...).replace(...)
\*                   || `Audio_${i + 1}`
safeTitle(audio, i) ==
    LET given == IF audio.title # <<>> THEN audio.title ELSE AudioTitle(i)
        safe  == Trimmed(Underscored(given))
    IN  IF safe # <<>> THEN safe ELSE AudioTitle(i)

\* const fc = ... : the filter chain of audio stream i, ending in [outa<i>];
fc(audio, i) ==
    LET n == ToString(i)
    IN  <<"[0:", ToString(audio.index), "]aformat=channel_layouts=5.1[a51_", n, "]", ";">>
     \o <<"[a51_", n, "]channelsplit=channel_layout=5.1[FL_", n, "][FR_", n,
          "][FC_", n, "][LFE_", n, "][SL_", n, "][SR_", n, "]", ";">>
     \o <<"[FC_", n, "]equalizer=f=5000:t=q:w=1:g=4,equalizer=f=8000:t=q:w=1:g=3[eFC_orig_",
          n, "]", ";">>
     \o <<"[FL_", n, "]equalizer=f=6000:t=q:w=1:g=4[eFL_", n, "]", ";">>
     \o <<"[FR_", n, "]equalizer=f=6000:t=q:w=1:g=4[eFR_", n, "]", ";">>
     \o <<"[eFC_orig_", n, "]asplit=3[eFC1_", n, "][eFC2_", n, "][eFC3_", n, "]", ";">>
     \o <<"[eFL_", n, "][eFC1_", n, "]amix=inputs=2:weights='0.70 0.30'[nFL_", n, "]", ";">>
     \o <<"[eFR_", n, "][eFC2_", n, "]amix=inputs=2:weights='0.70 0.30'[nFR_", n, "]", ";">>
     \o <<"[eFC3_", n, "]volume=1.5[nFC_", n, "]", ";">>
     \o <<"[nFL_", n, "][nFR_", n, "][nFC_", n, "][LFE_", n, "][SL_", n, "][SR_", n,
          "]join=inputs=6:channel_layout=5.1", "[outa", n, "]", ";">>

\* `[outa${i}]`
outa(i) == <<"[outa", ToString(i), "]">>

\* filterComplex after the forEach and the removal of the last ';'
RECURSIVE filterComplexUpTo(_, _)
filterComplexUpTo(audioStreams, n) ==
    IF n = 0 THEN <<>>
    ELSE filterComplexUpTo(audioStreams, n - 1) \o fc(audioStreams[n], n - 1)

filterComplex(audioStreams) ==
    LET whole == filterComplexUpTo(audioStreams, Len(audioStreams))
    IN  IF whole # <<>> /\ whole[Len(whole)] = ";"
        THEN SubSeq(whole, 1, Len(whole) - 1) ELSE whole

\* audioMaps after the forEach: '-map', `[outa${i}]` per stream
RECURSIVE audioMapsUpTo(_, _)
audioMapsUpTo(audioStreams, n) ==
    IF n = 0 THEN <<>>
    ELSE audioMapsUpTo(audioStreams, n - 1) \o << <<"-map">>, outa(n - 1) >>

audioMaps(audioStreams) == audioMapsUpTo(audioStreams, Len(audioStreams))

\* ` a:${i},agroup:audio,language:${audio.lang},name:${safeTitle}`
mapEntry(audio, i) ==
    <<" ", "a:", ToString(i), ",agroup:audio,language:", audio.lang, ",name:">>
    \o safeTitle(audio, i)

\* a variant map that names the audio group whatever the streams
varStreamMapGrouped(audioStreams) ==
    <<"v:0,agroup:audio">>

\* a sample-rate selection that never forces a rate
audioSampleRateNone(isTV) == <<>>

\* varStreamMap after the if / else
RECURSIVE varStreamMapUpTo(_, _)
varStreamMapUpTo(audioStreams, n) ==
    IF n = 0 THEN <<"v:0,agroup:audio">>
    ELSE varStreamMapUpTo(audioStreams, n - 1) \o mapEntry(audioStreams[n], n - 1)

varStreamMap(audioStreams) ==
    IF Len(audioStreams) > 0
    THEN varStreamMapUpTo(audioStreams, Len(audioStreams))
    ELSE <<"v:0">>

\* let videoCodec = 'libx264'; if (tryDirectMode) videoCodec = 'copy'
videoCodec(tryDirectMode) == IF tryDirectMode THEN "copy" ELSE "libx264"

\* let videoOpts = [...]; if (tryDirectMode) videoOpts = []
videoOpts(tryDirectMode) ==
    IF tryDirectMode THEN <<>>
    ELSE << <<"-preset">>, <<"ultrafast">>, <<"-tune">>, <<"zerolatency">>,
            <<"-crf">>, <<"23">>, <<"-pix_fmt">>, <<"yuv420p">> >>

\* an audio codec selection that ignores the device
audioCodecAc3(isTV) == "ac3"

\* let audioCodec = 'aac'; if (isTV) audioCodec = 'ac3'
audioCodec(isTV) == IF isTV THEN "ac3" ELSE "aac"

\* let audioSampleRate = []; if (isTV) audioSampleRate = ['-ar', '48000']
audioSampleRate(isTV) == IF isTV THEN << <<"-ar">>, <<"48000">> >> ELSE <<>>

\* const hlsDir = session.dir = path.join(hlsBaseDir, sessionId)
hlsDir(sessionId) == <<"public/hls", "/", sessionId>>

\* const ffmpegArgs = [...]; the two ffmpegArgs.push(...)
ffmpegArgs(videoUrl, sessionId, isTV, tryDirectMode, pd) ==
    LET audioStreams == ParseProbe(pd).audioStreams
    IN  << <<"-y">>, <<"-i">>, <<videoUrl>>, <<"-map">>, <<"0:v:0">> >>
        \o audioMaps(audioStreams)
        \o << <<"-c:v">>, <<videoCodec(tryDirectMode)>> >>
        \o videoOpts(tryDirectMode)
        \o (IF Len(audioStreams) > 0
            THEN << <<"-filter_complex">>, filterComplex(audioStreams),
                    <<"-c:a">>, <<audioCodec(isTV)>> >>
                 \o audioSampleRate(isTV)
                 \o << <<"-b:a">>, <<"640k">>, <<"-ac">>, <<"6">> >>
            ELSE <<>>)
        \o << <<"-max_muxing_queue_size">>, <<"4096">>,
              <<"-f">>, <<"hls">>,
              <<"-hls_time">>, <<"6">>,
              <<"-hls_list_size">>, <<"0">>,
              <<"-hls_playlist_type">>, <<"event">>,
              <<"-hls_allow_cache">>, <<"1">>,
              <<"-start_number">>, <<"0">>,
              <<"-master_pl_name">>, <<"main.m3u8">>,
              <<"-var_stream_map">>, varStreamMap(audioStreams),
              <<"-hls_segment_filename">>,
              hlsDir(sessionId) \o <<"/", "stream_%v_%d.ts">>,
              hlsDir(sessionId) \o <<"/", "stream_%v.m3u8">> >>

\* ------------------------------------------------ the sources inspected
MaxAudio == 2        \* audio streams of a source

\* the tags audio streams carry: no tags, a plain title, a title with
\* characters outside [a-zA-Z0-9], a title of such characters only
AudioTags ==
    { AudioTag("aac", Missing, <<>>),
      AudioTag("ac3", "eng", <<"M", "a", "i", "n">>),
      AudioTag("dts", "hin", <<"5", ".", "1", " ", "H", "D">>),
      AudioTag("aac", "fre", <<"(", "V", "F", ")">>),
      AudioTag("mp3", "und", <<"-", "-">>) }

VideoCodecs == {"h264", "hevc", "mpeg2video", Missing}

AudioLists ==
    UNION {[1..n -> AudioTags] : n \in 0..MaxAudio}

ArgReports ==
    {Report(0, TRUE, v, audio) : v \in VideoCodecs, audio \in AudioLists}
    \cup {Report(0, FALSE, Missing, <<>>), Report(1, FALSE, Missing, <<>>)}

\* a /start request, before startEncodingProcess is called
ArgInit ==
    /\ sessions = [s \in SessionIds |-> 0]
    /\ objs = [o \in 1..MaxReq |-> NoSession]
    /\ dirExists = [s \in SessionIds |-> FALSE]
    /\ playlist = [s \in SessionIds |-> 0]
    /\ reqs = <<>>
    /\ atts = <<>>
    /\ now = 0
    /\ built \in {[stage |-> "request", url |-> u, sid |-> sid, isTV |-> tv,
                   pd |-> pd, tryDirectMode |-> FALSE, args |-> <<>>] :
                      u \in {UrlSeq[1]}, sid \in SessionIds, tv \in BOOLEAN,
                      pd \in ArgReports}
    /\ mux = NoMux
    /\ dog = NoDog

\* startEncodingProcess(isTV) and the close of its probe
BuildInitial ==
    /\ built.stage = "request"
    /\ built' = [built EXCEPT
                   !.stage = "initial",
                   !.tryDirectMode = built.isTV,
                   !.args = ffmpegArgs(built.url, built.sid, built.isTV,
                                       built.isTV, built.pd)]
    /\ UNCHANGED <<sessions, objs, dirExists, playlist, reqs, atts, now, mux, dog>>

\* startEncodingProcess(false) after a direct attempt, and the close of its
\* probe, which reports pd
BuildFallback(pd) ==
    /\ built.stage = "initial"
    /\ built.tryDirectMode
    /\ built' = [built EXCEPT
                   !.stage = "fallback",
                   !.tryDirectMode = FALSE,
                   !.pd = pd,
                   !.args = ffmpegArgs(built.url, built.sid, built.isTV,
                                       FALSE, pd)]
    /\ UNCHANGED <<sessions, objs, dirExists, playlist, reqs, atts, now, mux, dog>>

ArgNext ==
    \/ BuildInitial
    \/ \E pd \in {built.pd, Report(1, FALSE, Missing, <<>>)} : BuildFallback(pd)

ArgSpec == ArgInit /\ [][ArgNext]_vars

\* ===================================================================
\* The subtitle-muxing server (src/unnamed/part_002): one global transcoder
\* handle, one hls directory, and a /start handler that retries without
\* subtitles.
MaxMuxReq == 2       \* /start requests in one behaviour

\* the values of the subIndex query parameter that are tried
SubQueries == {Missing, "0", "2"}

\* let subIndex = parseInt(parsedUrl.query.subIndex) || -1: an absent
\* parameter parses to NaN and "0" to 0, both falsy
subIndex(q) == CASE q = "2" -> 2 [] OTHER -> -1

MuxReqIds == 1..Len(mux.reqs)
MuxAttIds == 1..Len(mux.atts)

\* startEncodingProcess(currentSubIndex, isRetry), up to the spawn of the
\* probe
MuxAttempt(r, currentSubIndex, isRetry) ==
    [req |-> r, currentSubIndex |-> currentSubIndex, isRetry |-> isRetry,
     st |-> "probing", code |-> "none", timer |-> FALSE]

\* a retry that does not say it is one
MuxRetryUnflagged(r) == MuxAttempt(r, -1, FALSE)

\* startEncodingProcess(-1, true)
MuxRetry(r) == MuxAttempt(r, -1, TRUE)

\* clearInterval(t), t = 0 being no timer
ClearInterval(as, t) == IF t # 0 THEN [as EXCEPT ![t].timer = FALSE] ELSE as

\* res.headersSent of a /start request of this server
MuxHeadersSent(r) == mux.reqs[r].res # "none"

\* GET /start?url=...&subIndex=<q>, url present: cleanup previous stream,
\* clear the hls directory, startEncodingProcess(subIndex, false)
MuxStart(q) ==
    LET r == Len(mux.reqs) + 1
    IN  /\ Len(mux.reqs) < MaxMuxReq
        /\ mux' = [mux EXCEPT
                     !.ffmpegProcess = 0,
                     !.playlist = FALSE,
                     !.reqs = Append(@, [subIndex |-> subIndex(q), res |-> "none",
                                         fallback |-> FALSE]),
                     !.atts = Append(Kill(@, mux.ffmpegProcess),
                                     MuxAttempt(r, subIndex(q), FALSE))]
        /\ UNCHANGED <<sessions, objs, dirExists, playlist, reqs, atts, now,
                       built, dog>>

\* probe.on('close'): ffmpegProcess = spawn('ffmpeg', ffmpegArgs), clear
\* any old timer (global.checkPlaylist), arm this attempt's poll and publish
\* it as global.checkPlaylist
MuxProbeClose(a) ==
    /\ mux.atts[a].st = "probing"
    /\ mux' = [mux EXCEPT
                 !.ffmpegProcess = a,
                 !.checkPlaylist = a,
                 !.atts = [ClearInterval(@, mux.checkPlaylist) EXCEPT
                             ![a].st = "running", ![a].timer = TRUE]]
    /\ UNCHANGED <<sessions, objs, dirExists, playlist, reqs, atts, now,
                   built, dog>>

\* the transcoder writes main.m3u8 into the hls directory
MuxWrite(a) ==
    /\ mux.atts[a].st = "running"
    /\ ~mux.playlist
    /\ mux' = [mux EXCEPT !.playlist = TRUE]
    /\ UNCHANGED <<sessions, objs, dirExists, playlist, reqs, atts, now,
                   built, dog>>

\* the transcoder terminates by itself with an exit code
MuxExit(a, code) ==
    /\ mux.atts[a].st = "running"
    /\ mux' = [mux EXCEPT !.atts[a].st = "dead", !.atts[a].code = code]
    /\ UNCHANGED <<sessions, objs, dirExists, playlist, reqs, atts, now,
                   built, dog>>

\* ffmpegProcess.on('close', (code) => ...), FALLBACK LOGIC.  The handler
\* leaves the global handle alone.
MuxClose(a) ==
    LET r      == mux.atts[a].req
        closed == [mux.atts EXCEPT ![a].st = "closed"]
    IN  /\ mux.atts[a].st = "dead"
        /\ IF mux.atts[a].code # "0" /\ ~MuxHeadersSent(r)
           THEN IF mux.atts[a].currentSubIndex # -1
                THEN mux' = [mux EXCEPT
                               !.atts = Append(ClearInterval(closed, a),
                                               MuxRetry(r))]
                ELSE mux' = [mux EXCEPT
                               !.atts = ClearInterval(closed, a),
                               !.reqs[r].res = "500"]
           ELSE mux' = [mux EXCEPT !.atts = closed]
        /\ UNCHANGED <<sessions, objs, dirExists, playlist, reqs, atts, now,
                       built, dog>>

\* checkPlaylist tick, branch fs.existsSync(main.m3u8): answer with
\* fallback: isRetry, then resetWatchdog()
MuxTimerReady(a) ==
    LET r == mux.atts[a].req
    IN  /\ mux.atts[a].timer
        /\ mux.playlist
        /\ mux' = [mux EXCEPT
                     !.atts[a].timer = FALSE,
                     !.watchdogTimer = TRUE,
                     !.reqs[r] = IF MuxHeadersSent(r) THEN @
                                 ELSE [@ EXCEPT !.res = "started",
                                                !.fallback = mux.atts[a].isRetry]]
        /\ UNCHANGED <<sessions, objs, dirExists, playlist, reqs, atts, now,
                       built, dog>>

\* checkPlaylist tick, branch attempts >= maxAttempts (240 for every
\* attempt, so a poll armed earlier gets there first): kill whatever the
\* global handle refers to and answer 500
MuxTimerTimeout(a) ==
    LET r == mux.atts[a].req
    IN  /\ mux.atts[a].timer
        /\ ~mux.playlist
        /\ \A b \in 1..(a - 1) : ~mux.atts[b].timer
        /\ mux' = [mux EXCEPT
                     !.atts = [Kill(@, mux.ffmpegProcess) EXCEPT ![a].timer = FALSE],
                     !.reqs[r].res = IF MuxHeadersSent(r) THEN @ ELSE "500"]
        /\ UNCHANGED <<sessions, objs, dirExists, playlist, reqs, atts, now,
                       built, dog>>

\* GET /stop
MuxStop ==
    /\ mux.ffmpegProcess # 0
    /\ mux' = [mux EXCEPT !.ffmpegProcess = 0,
                          !.atts = Kill(@, mux.ffmpegProcess)]
    /\ UNCHANGED <<sessions, objs, dirExists, playlist, reqs, atts, now,
                   built, dog>>

\* the watchdog timeout, ten minutes after the last resetWatchdog()
MuxWatchdog ==
    /\ mux.watchdogTimer
    /\ mux' = [mux EXCEPT !.watchdogTimer = FALSE,
                          !.ffmpegProcess = 0,
                          !.atts = Kill(@, mux.ffmpegProcess)]
    /\ UNCHANGED <<sessions, objs, dirExists, playlist, reqs, atts, now,
                   built, dog>>

MuxNext ==
    \/ \E q \in SubQueries : MuxStart(q)
    \/ \E a \in MuxAttIds : MuxProbeClose(a)
    \/ \E a \in MuxAttIds : MuxWrite(a)
    \/ \E a \in MuxAttIds, code \in {"0", "1"} : MuxExit(a, code)
    \/ \E a \in MuxAttIds : MuxClose(a)
    \/ \E a \in MuxAttIds : MuxTimerReady(a)
    \/ \E a \in MuxAttIds : MuxTimerTimeout(a)
    \/ MuxStop
    \/ MuxWatchdog

MuxSpec == Init /\ [][MuxNext]_vars

\* ===================================================================
\* The single-stream watchdog server (src/server.js:1-397): one global
\* transcoder handle, one hls directory, a watchdog timeout that /ping and
\* a successful /start re-arm.  Its /start spawns the transcoder at once
\* (no probe), so a request and its transcoder share one record of
\* dog.reqs.  The clock counts units of 7.5 s.
MaxDogReq   == 2     \* /start requests in one behaviour
MaxDogClock == 4     \* last clock value

WATCHDOG_MS   == 2   \* setTimeout(..., 15000)
POLL_LIMIT_MS == 4   \* maxAttempts = 60 ticks of 500 ms

DogReqIds == 1..Len(dog.reqs)

\* a watchdog that is re-armed by resetWatchdog() is cleared first, so one
\* deadline is pending at most
ResetWatchdog(d) == [d EXCEPT !.watchdogTimer = d.clock + WATCHDOG_MS]

\* GET /start?url=..., url present: cleanup previous stream, clear the hls
\* directory, ffmpegProcess = spawn('ffmpeg', ...), arm the poll.  The
\* handler does not touch the watchdog.
DogStart ==
    LET r == Len(dog.reqs) + 1
    IN  /\ Len(dog.reqs) < MaxDogReq
        /\ dog' = [dog EXCEPT
                     !.ffmpegProcess = r,
                     !.playlist = FALSE,
                     !.seen = dog.clock,
                     !.reqs = Append(Kill(@, dog.ffmpegProcess),
                                     [res |-> "none", st |-> "running",
                                      code |-> "none", timer |-> TRUE,
                                      since |-> dog.clock])]
        /\ UNCHANGED <<sessions, objs, dirExists, playlist, reqs, atts, now,
                       built, mux>>

\* the transcoder writes stream.m3u8 into the hls directory
DogWrite(a) ==
    /\ dog.reqs[a].st = "running"
    /\ ~dog.playlist
    /\ dog' = [dog EXCEPT !.playlist = TRUE]
    /\ UNCHANGED <<sessions, objs, dirExists, playlist, reqs, atts, now,
                   built, mux>>

\* the transcoder terminates by itself with an exit code
DogExit(a, code) ==
    /\ dog.reqs[a].st = "running"
    /\ dog' = [dog EXCEPT !.reqs[a].st = "dead", !.reqs[a].code = code]
    /\ UNCHANGED <<sessions, objs, dirExists, playlist, reqs, atts, now,
                   built, mux>>

\* ffmpegProcess.on('close', (code) => ...)
DogClose(a) ==
    /\ dog.reqs[a].st = "dead"
    /\ dog' = IF dog.reqs[a].code # "0" /\ dog.reqs[a].res = "none"
              THEN [dog EXCEPT !.reqs[a].st = "closed", !.reqs[a].timer = FALSE,
                               !.reqs[a].res = "500"]
              ELSE [dog EXCEPT !.reqs[a].st = "closed"]
    /\ UNCHANGED <<sessions, objs, dirExists, playlist, reqs, atts, now,
                   built, mux>>

\* checkPlaylist tick, branch fs.existsSync(stream.m3u8): answer started,
\* then resetWatchdog()
DogTimerReady(a) ==
    /\ dog.reqs[a].timer
    /\ dog.playlist
    /\ dog' = ResetWatchdog([dog EXCEPT !.reqs[a].timer = FALSE,
                                        !.reqs[a].res = "started"])
    /\ UNCHANGED <<sessions, objs, dirExists, playlist, reqs, atts, now,
                   built, mux>>

\* checkPlaylist tick, branch attempts >= maxAttempts: kill whatever the
\* global handle refers to and answer 500
DogTimerTimeout(a) ==
    /\ dog.reqs[a].timer
    /\ ~dog.playlist
    /\ dog.clock - dog.reqs[a].since >= POLL_LIMIT_MS
    /\ dog' = [dog EXCEPT
                 !.reqs = [Kill(@, dog.ffmpegProcess) EXCEPT
                             ![a].timer = FALSE, ![a].res = "500"]]
    /\ UNCHANGED <<sessions, objs, dirExists, playlist, reqs, atts, now,
                   built, mux>>

\* GET /stop
DogStop ==
    /\ dog.ffmpegProcess # 0
    /\ dog' = [dog EXCEPT !.ffmpegProcess = 0,
                          !.reqs = Kill(@, dog.ffmpegProcess)]
    /\ UNCHANGED <<sessions, objs, dirExists, playlist, reqs, atts, now,
                   built, mux>>

\* GET /ping: resetWatchdog()
DogPing ==
    /\ dog' = ResetWatchdog([dog EXCEPT !.seen = dog.clock])
    /\ UNCHANGED <<sessions, objs, dirExists, playlist, reqs, atts, now,
                   built, mux>>

\* the watchdog timeout: if (ffmpegProcess) kill it, clear the handle and
\* the hls directory
DogWatchdog ==
    /\ dog.watchdogTimer # 0
    /\ dog.clock = dog.watchdogTimer
    /\ dog' = IF dog.ffmpegProcess # 0
              THEN [dog EXCEPT !.watchdogTimer = 0,
                               !.ffmpegProcess = 0,
                               !.playlist = FALSE,
                               !.reqs = Kill(@, dog.ffmpegProcess)]
              ELSE [dog EXCEPT !.watchdogTimer = 0]
    /\ UNCHANGED <<sessions, objs, dirExists, playlist, reqs, atts, now,
                   built, mux>>

\* a timer whose callback has work to do before the clock advances: the
\* watchdog at its deadline, a poll that sees the playlist or has used up
\* its attempts
DogDue ==
    \/ dog.watchdogTimer # 0 /\ dog.clock = dog.watchdogTimer
    \/ \E a \in DogReqIds :
           /\ dog.reqs[a].timer
           /\ dog.playlist \/ dog.clock - dog.reqs[a].since >= POLL_LIMIT_MS

\* 7.5 s pass
DogTick ==
    /\ dog.clock < MaxDogClock
    /\ ~DogDue
    /\ dog' = [dog EXCEPT !.clock = @ + 1]
    /\ UNCHANGED <<sessions, objs, dirExists, playlist, reqs, atts, now,
                   built, mux>>

DogNext ==
    \/ DogStart
    \/ \E a \in DogReqIds : DogWrite(a)
    \/ \E a \in DogReqIds, code \in {"0", "1"} : DogExit(a, code)
    \/ \E a \in DogReqIds : DogClose(a)
    \/ \E a \in DogReqIds : DogTimerReady(a)
    \/ \E a \in DogReqIds : DogTimerTimeout(a)
    \/ DogStop
    \/ DogPing
    \/ DogWatchdog
    \/ DogTick

DogSpec == Init /\ [][DogNext]_vars

\* ===================================================================
\* Properties
\* ===================================================================
Alive(a) == atts[a].st = "running"
Spawned(a) == atts[a].st # "probing"
SidOf(a) == reqs[atts[a].req].sid
UrlOf(a) == reqs[atts[a].req].url
Handle(sid) == objs[sessions[sid]].process

\* C1: for every session id, at most one transcoder spawned for that
\* session is alive, in every reachable state.
C1_AtMostOneLiveTranscoder ==
    \A sid \in SessionIds :
        Cardinality({a \in AttIds : Alive(a) /\ SidOf(a) = sid}) <= 1

C3_OverlappingStartsSpawnOne ==
    \A r2 \in ReqIds : \A r1 \in reqs[r2].overlaps :
        reqs[r1].url = reqs[r2].url =>
            Cardinality({a \in AttIds : atts[a].req \in {r1, r2} /\ Alive(a)}) <= 1

\* C4: with /start A followed by /start B for another URL in one session,
\* from the moment B's transcoder is spawned no transcoder spawned on
\* behalf of A is alive.
C4_PreviousKilledBeforeSpawn ==
    \A A \in ReqIds, B \in ReqIds :
        (/\ A < B
         /\ reqs[A].sid = reqs[B].sid
         /\ reqs[A].url # reqs[B].url
         /\ \E b \in AttIds : atts[b].req = B /\ Spawned(b))
        => \A a \in AttIds : atts[a].req = A => ~Alive(a)

\* C5: with /start A followed by /start B for another URL in one session,
\* B is answered "started" only on a main.m3u8 written by a transcoder
\* spawned for B's URL.
C5_ReadinessReflectsOwnOutput ==
    \A A \in ReqIds, B \in ReqIds :
        (/\ A < B
         /\ reqs[A].sid = reqs[B].sid
         /\ reqs[A].url # reqs[B].url
         /\ reqs[B].res = "started")
        => reqs[B].pl # 0 /\ UrlOf(reqs[B].pl) = reqs[B].url

\* C6: every session of the table whose handle is present has its source
\* URL present and its directory on disk.
C6_HandleImpliesUrlAndDir ==
    \A sid \in SessionIds :
        (sessions[sid] # 0 /\ Handle(sid) # 0)
        => objs[sessions[sid]].url # NoUrl /\ dirExists[sid]

C6_Witness ==
    \E sid \in SessionIds :
        /\ sessions[sid] # 0
        /\ Handle(sid) # 0
        /\ \E a \in AttIds : atts[a].st = "closed"
        /\ \E q \in ReqIds :
               reqs[q].sid = sid /\ reqs[q].obj # 0 /\ reqs[q].obj # sessions[sid]

\* C7: whenever /start answers "started" or "resumed", main.m3u8 exists in
\* the session directory at the moment the response is sent.
C7_SuccessImpliesPlaylist ==
    \A r \in ReqIds : reqs[r].res \in {"started", "resumed"} => reqs[r].pl # 0

\* C8: at most two transcoders are ever spawned on behalf of one /start
\* request (the speculative one and one full-transcode fallback).
C8_OneFallbackLevel ==
    \A r \in ReqIds :
        Cardinality({a \in AttIds : atts[a].req = r /\ Spawned(a)}) <= 2

\* a full-transcode attempt of a request that began in copy mode
IsFallback(a) == reqs[atts[a].req].isTV /\ ~atts[a].direct

\* C9: after a fallback, the success response of the request reports the
\* full-transcode mode, never the speculative mode.
C9_FallbackReportsTranscode ==
    \A r \in ReqIds :
        (reqs[r].res = "started" /\ \E a \in AttIds : atts[a].req = r /\ IsFallback(a))
        => reqs[r].mode = mode(FALSE)

\* C10: once a fallback has occurred in a session, no later /start of that
\* session attempts the speculative copy mode.
C10_StickyFallback ==
    \A f \in AttIds, a \in AttIds :
        (/\ f < a
         /\ IsFallback(f)
         /\ atts[a].req # atts[f].req
         /\ reqs[atts[a].req].obj = reqs[atts[f].req].obj)
        => ~atts[a].direct

\* C11: /stop for a known session kills the transcoder its handle refers
\* to and clears handle and source URL in the step that answers 200, so the
\* state left by the handler has no handle.
C11_StopClearsBeforeResponse ==
    [][ \A sid \in SessionIds :
          (sessions[sid] # 0 /\ Stop(sid)) =>
              /\ StopStatus(sid) = 200
              /\ objs'[sessions[sid]].process = 0
              /\ objs'[sessions[sid]].url = NoUrl
              /\ Handle(sid) # 0 => atts'[Handle(sid)].st # "running" ]_vars

C11_Witness ==
    \E sid \in SessionIds :
        /\ sessions[sid] # 0
        /\ Handle(sid) = 0
        /\ objs[sessions[sid]].url = NoUrl
        /\ \A a \in AttIds : atts[a].st # "probing"
        /\ \E a \in AttIds :
               atts[a].st = "dead" /\ atts[a].code = "null" /\ atts[a].timer

\* C12: an entry leaves the session table, and a session directory leaves
\* the disk, only in a step of the eviction loop; /stop keeps both.
C12_OnlyEvictionRemoves ==
    [][ /\ \A sid \in SessionIds :
              (\/ sessions[sid] # 0 /\ sessions'[sid] # sessions[sid]
               \/ dirExists[sid] /\ ~dirExists'[sid]) => Evict
        /\ \A sid \in SessionIds :
              Stop(sid) => sessions' = sessions /\ dirExists' = dirExists ]_vars

C12_Witness ==
    \E sid \in SessionIds :
        /\ sessions[sid] = 0
        /\ ~dirExists[sid]
        /\ \E q \in ReqIds : reqs[q].sid = sid /\ reqs[q].obj # 0

\* C13: when a readiness poll reaches its deadline, the transcoder of that
\* attempt is killed and the session's handle is cleared, and a
\* full-transcode attempt's request is answered with an error.
C13_DeadlineKillsOwnTranscoder ==
    [][ \A a \in AttIds :
          TimerTimeout(a) =>
              /\ atts'[a].st # "running"
              /\ objs'[reqs[atts[a].req].obj].process = 0
              /\ ~atts[a].direct => reqs'[atts[a].req].res = "error" ]_vars

C15_NoOperationOnEvictedEntry ==
    [][ \A a \in AttIds, pd \in ProbeReports :
          ProbeClose(a, pd) =>
              /\ sessions[SidOf(a)] = reqs[atts[a].req].obj
              /\ dirExists[SidOf(a)] ]_vars

\* C16: /ping is answered 404 for a session id that is not in the table
\* and 200 only for one that is.
C16_PingUnknownIs404 ==
    \A sid \in SessionIds :
        PingStatus(sid) = IF sessions[sid] # 0 THEN 200 ELSE 404

\* C17: while a session stays in the table its lastPing never decreases;
\* it changes only in a /ping or /start of that session, which set it to
\* the current time.
C17_HeartbeatMonotone ==
    [][ \A sid \in SessionIds :
          (sessions[sid] # 0 /\ sessions'[sid] = sessions[sid]) =>
              LET before == objs[sessions[sid]].lastPing
                  after  == objs'[sessions[sid]].lastPing
              IN  /\ after >= before
                  /\ after # before =>
                        /\ after = now
                        /\ \/ Ping(sid)
                           \/ \E u \in Urls, tv \in BOOLEAN, tr \in BOOLEAN :
                                  Start(sid, u, tv, tr)
                  /\ Ping(sid) => after = now
                  /\ (\E u \in Urls, tv \in BOOLEAN, tr \in BOOLEAN :
                          Start(sid, u, tv, tr)) => after = now ]_vars

C17_Witness ==
    \E sid \in SessionIds :
        /\ sessions[sid] = 1
        /\ objs[1].lastPing = MaxNow
        /\ Len(reqs) = 2
        /\ reqs[2].sid = sid
        /\ reqs[2].obj = 1

\* C18: a /start that lacks url or session is answered 400 and changes no
\* state: no entry, directory, heartbeat or transcoder is touched.
C18_BadRequestChangesNothing ==
    [][ Len(reqs') = Len(reqs) + 1 =>
          LET r == reqs'[Len(reqs')]
          IN  (r.url = Missing \/ r.sid = Missing) =>
                  /\ r.res = "400"
                  /\ UNCHANGED <<sessions, objs, dirExists, playlist, atts>> ]_vars

C18_Witness ==
    \E r \in ReqIds :
        /\ r > 1
        /\ reqs[r].res = "400"
        /\ \E sid \in SessionIds : sessions[sid] # 0 /\ Handle(sid) # 0
                                   /\ Alive(Handle(sid))

\* C19: with transcode=true, /start selects full transcode for every device
\* class: the attempt it starts is not a copy-mode attempt.
C19_ForceFlagSelectsTranscode ==
    [][ \A sid \in SessionIds, u \in Urls, tv \in BOOLEAN :
          (Start(sid, u, tv, TRUE) /\ Len(atts') = Len(atts) + 1)
          => ~atts'[Len(atts')].direct ]_vars

\* a probe report whose video codec and every audio codec are in the
\* allowedVideo and allowedAudio sets of every TV brand of the capability
\* table; a source without audio is compatible
WholeStreamPlayable(pd) ==
    /\ pd.code = 0
    /\ pd.json
    /\ \E i \in 1..Len(pd.streams) : pd.streams[i].codec_type = "video"
    /\ \A i \in 1..Len(pd.streams) :
           pd.streams[i].codec_name \in
               IF pd.streams[i].codec_type = "video"
               THEN {"h264", "hevc"}
               ELSE {"aac", "ac3", "eac3", "mp3"}

\* C20: for a TV request whose source is playable as it is (video and all
\* audio compatible), no transcoder is spawned.
C20_CompatibleTvSpawnsNothing ==
    [][ \A a \in AttIds, pd \in ProbeReports :
          (/\ reqs[atts[a].req].isTV
           /\ atts[a].direct
           /\ WholeStreamPlayable(pd)
           /\ ProbeClose(a, pd))
          => atts'[a].st = "probing" ]_vars

\* ------------------------------------------------ reading an argument list
\* the positions of option opt
At(args, opt) == {k \in 1..Len(args) : args[k] = <<opt>>}

\* option opt is followed by value val
HasOpt(args, opt, val) ==
    \E k \in At(args, opt) : k < Len(args) /\ args[k + 1] = <<val>>

\* the value that follows the option opt, which occurs once
ValueOf(args, opt) == args[(CHOOSE k \in At(args, opt) : TRUE) + 1]

\* the entries of a space-separated string
RECURSIVE Entries(_)
Entries(str) ==
    IF \A k \in 1..Len(str) : str[k] # " " THEN <<str>>
    ELSE LET k == CHOOSE i \in 1..Len(str) :
                      str[i] = " " /\ \A j \in 1..(i - 1) : str[j] # " "
         IN  <<SubSeq(str, 1, k - 1)>> \o Entries(SubSeq(str, k + 1, Len(str)))

\* the source of the inspected invocation as ffprobe reported it
Parsed == built.pd.code = 0 /\ built.pd.json
SourceAudio ==
    IF Parsed
    THEN SelectSeq(built.pd.streams, LAMBDA s : s.codec_type = "audio")
    ELSE <<>>
SourceVideoCodec ==
    LET video == SelectSeq(built.pd.streams, LAMBDA s : s.codec_type = "video")
    IN  IF Parsed /\ video # <<>> THEN video[1].codec_name ELSE Missing
Built == built.stage \in {"initial", "fallback"}

\* C21: when the probe fails or reports an unknown or incompatible video
\* codec, the first transcoder of the request is spawned with libx264,
\* preset ultrafast, crf 23, and not with video copy.
C21_FailedProbeFullTranscode ==
    (built.stage = "initial" /\ SourceVideoCodec \notin {"h264", "hevc"})
    => /\ HasOpt(built.args, "-c:v", "libx264")
       /\ HasOpt(built.args, "-preset", "ultrafast")
       /\ HasOpt(built.args, "-crf", "23")
       /\ ~HasOpt(built.args, "-c:v", "copy")

\* C22: for a browser every transcoder is spawned with a video encoder,
\* never with video copy, and its audio, if any, is encoded as AAC.
C22_BrowserFullTranscode ==
    (Built /\ ~built.isTV)
    => /\ ~built.tryDirectMode
       /\ At(built.args, "-c:v") # {}
       /\ \A k \in At(built.args, "-c:v") : built.args[k + 1] = <<"libx264">>
       /\ SourceAudio # <<>> => At(built.args, "-c:a") # {}
       /\ \A k \in At(built.args, "-c:a") : built.args[k + 1] = <<"aac">>

C22_Witness ==
    /\ built.stage = "initial"
    /\ ~built.isTV
    /\ Len(SourceAudio) = MaxAudio
    /\ HasOpt(built.args, "-c:a", "aac")
    /\ HasOpt(built.args, "-c:v", "libx264")

\* C23: when the arguments carry a filter graph, -filter_complex comes
\* after the input URL and before every -map.
C23_FilterBeforeMaps ==
    (Built /\ At(built.args, "-filter_complex") # {})
    => \A f \in At(built.args, "-filter_complex") :
           /\ \A k \in At(built.args, "-i") : k + 1 < f
           /\ \A k \in At(built.args, "-map") : f < k

\* C24: arguments with video codec copy carry -bsf:v, h264_mp4toannexb
\* for an H.264 source and hevc_mp4toannexb for an HEVC source.
C24_CopyCarriesBitstreamFilter ==
    (Built /\ HasOpt(built.args, "-c:v", "copy"))
    => /\ At(built.args, "-bsf:v") # {}
       /\ SourceVideoCodec = "h264"
              => HasOpt(built.args, "-bsf:v", "h264_mp4toannexb")
       /\ SourceVideoCodec = "hevc"
              => HasOpt(built.args, "-bsf:v", "hevc_mp4toannexb")

\* C25: for a source without audio streams (a failed probe included) the
\* variant stream map is exactly v:0 and the arguments carry no audio map,
\* no -filter_complex and none of -c:a, -ar, -b:a, -ac.
C25_NoAudioVideoOnly ==
    (Built /\ SourceAudio = <<>>)
    => /\ Cardinality(At(built.args, "-var_stream_map")) = 1
       /\ ValueOf(built.args, "-var_stream_map") = <<"v:0">>
       /\ \A k \in At(built.args, "-map") : built.args[k + 1] = <<"0:v:0">>
       /\ \A opt \in {"-filter_complex", "-c:a", "-ar", "-b:a", "-ac"} :
              At(built.args, opt) = {}

C25_Witness ==
    /\ built.stage = "fallback"
    /\ Parsed
    /\ SourceVideoCodec = "hevc"
    /\ SourceAudio = <<>>
    /\ ValueOf(built.args, "-var_stream_map") = <<"v:0">>

AudioBlock(args) ==
    IF At(args, "-c:a") = {} \/ At(args, "-ac") = {} THEN <<>>
    ELSE SubSeq(args, CHOOSE k \in At(args, "-c:a") : TRUE,
                      (CHOOSE k \in At(args, "-ac") : TRUE) + 1)

\* C27: the audio codec block is fixed by device class and presence of
\* audio: -c:a ac3 -ar 48000 -b:a 640k -ac 6 for a TV, -c:a aac -b:a 640k
\* -ac 6 for a browser, and no block without audio.
C27_AudioBlockByDevice ==
    Built =>
        /\ \A opt \in {"-c:a", "-ar", "-b:a", "-ac"} :
               Cardinality(At(built.args, opt)) <= 1
        /\ AudioBlock(built.args) =
               IF SourceAudio = <<>> THEN <<>>
               ELSE IF built.isTV
               THEN << <<"-c:a">>, <<"ac3">>, <<"-ar">>, <<"48000">>,
                       <<"-b:a">>, <<"640k">>, <<"-ac">>, <<"6">> >>
               ELSE << <<"-c:a">>, <<"aac">>,
                       <<"-b:a">>, <<"640k">>, <<"-ac">>, <<"6">> >>
        /\ SourceAudio = <<>> =>
               \A opt \in {"-c:a", "-ar", "-b:a", "-ac"} : At(built.args, opt) = {}
        /\ ~built.isTV => At(built.args, "-ar") = {}

C27_Witness ==
    /\ built.stage = "initial"
    /\ built.isTV
    /\ built.tryDirectMode
    /\ SourceAudio # <<>>
    /\ HasOpt(built.args, "-ar", "48000")
    /\ HasOpt(built.args, "-c:a", "ac3")

\* C28: when a full-transcode transcoder exits with a non-zero code before
\* the request was answered, the exit handler answers the request with an
\* error and spawns nothing, and leaves no invocation of that request
\* behind whose transcoder is still running or still to be spawned.
C28_FatalExitEndsRequest ==
    [][ \A a \in AttIds :
          (/\ ProcClose(a)
           /\ ~atts[a].direct
           /\ atts[a].code = "1"
           /\ ~headersSent(atts[a].req))
          => /\ reqs'[atts[a].req].res = "error"
             /\ Len(atts') = Len(atts)
             /\ \A b \in AttIds :
                    atts'[b].req = atts[a].req
                    => atts'[b].st \notin {"probing", "running"} ]_vars

\* C29: when a transcoder exits by itself and the exit is handled after
\* its request was answered "started", the session is left idle (handle
\* and URL cleared, no probe of that request in flight that would set the
\* handle again without a /start), and a /start that finds the session idle
\* is not answered "resumed" but starts a new attempt.
C29_ExitAfterReadyRespawns ==
    [][ /\ \A a \in AttIds :
              (/\ ProcClose(a)
               /\ atts[a].code \in {"0", "1"}
               /\ reqs[atts[a].req].res = "started")
              => /\ objs'[reqs[atts[a].req].obj].process = 0
                 /\ objs'[reqs[atts[a].req].obj].url = NoUrl
                 /\ \A b \in AttIds :
                        atts'[b].req = atts[a].req => atts'[b].st # "probing"
        /\ \A sid \in SessionIds :
              (/\ sessions[sid] # 0
               /\ Handle(sid) = 0
               /\ Len(reqs') = Len(reqs) + 1
               /\ reqs'[Len(reqs')].sid = sid
               /\ reqs'[Len(reqs')].url # Missing)
              => /\ reqs'[Len(reqs')].res # "resumed"
                 /\ Len(atts') = Len(atts) + 1
                 /\ atts'[Len(atts')].req = Len(reqs') ]_vars

\* C30: a /start request receives at most one response: once it has been
\* answered, no later step changes its response.
C30_AtMostOneResponse ==
    [][ \A r \in ReqIds :
          reqs[r].res # "none"
          => /\ reqs'[r].res = reqs[r].res
             /\ reqs'[r].mode = reqs[r].mode
             /\ reqs'[r].pl = reqs[r].pl ]_vars

C30_Witness ==
    \E r \in ReqIds, b \in AttIds :
        /\ reqs[r].res = "error"
        /\ atts[b].req = r
        /\ ~atts[b].direct
        /\ atts[b].st = "dead"
        /\ atts[b].code = "null"
        /\ \A c \in AttIds \ {b} : atts[c].req = r => atts[c].direct

\* C31: every alive transcoder that was spawned for a session of the table
\* is the process that session's handle refers to.
C31_NoUntrackedTranscoder ==
    \A a \in AttIds :
        (Alive(a) /\ sessions[SidOf(a)] = reqs[atts[a].req].obj)
        => Handle(SidOf(a)) = a

\* C32: the exit event of a transcoder leaves handle and URL as they are
\* when the handle refers to another, newer transcoder.
C32_LateExitKeepsNewerHandle ==
    [][ \A a \in AttIds :
          (ProcClose(a) /\ objs[reqs[atts[a].req].obj].process \notin {0, a})
          => /\ objs'[reqs[atts[a].req].obj].process
                    = objs[reqs[atts[a].req].obj].process
             /\ objs'[reqs[atts[a].req].obj].url
                    = objs[reqs[atts[a].req].obj].url ]_vars

\* C33: a /stop leaves nothing behind that starts a transcoder for the
\* session without a new /start: no probe in flight, no killed copy-mode
\* transcoder whose exit would fall back, no armed copy-mode timer whose
\* deadline would fall back.
C33_NothingSpawnsAfterStop ==
    [][ \A sid \in SessionIds :
          (sessions[sid] # 0 /\ Stop(sid))
          => \A b \in AttIds :
                 reqs[atts'[b].req].obj = sessions[sid]
                 => /\ atts'[b].st # "probing"
                    /\ ~(/\ atts'[b].direct
                         /\ ~headersSent(atts'[b].req)
                         /\ atts'[b].st = "dead" \/ atts'[b].timer) ]_vars

\* C34: the deadline of a readiness poll changes the state of no attempt
\* but its own: it kills no transcoder another attempt spawned.
C34_TimerKillsOnlyOwn ==
    [][ \A a \in AttIds :
          TimerTimeout(a)
          => \A b \in AttIds \ {a} : atts'[b].st = atts[b].st ]_vars

ProbeTerminates(a) ==
    a \in AttIds /\ \E pd \in ProbeReports : ProbeClose(a, pd)

\* "timers keep firing": the setInterval callback of attempt a keeps being
\* run until one of its branches clears the interval
TimerFires(a) ==
    a \in AttIds /\ (TimerReady(a) \/ TimerTimeout(a))

\* Nothing is assumed of the transcoders (ProcWrite, ProcExit), of the
\* delivery of their 'close' events, or of the clients.
Fairness ==
    \A a \in 1..MaxAtt : WF_vars(ProbeTerminates(a)) /\ WF_vars(TimerFires(a))

\* The requests and events of one stretch of time shorter than TIMEOUT_MS:
\* the clock does not advance, so no session expires, and /ping, which only
\* writes lastPing, is left out.
LiveNext ==
    \/ \E sid \in SessionIds, u \in Urls, tv \in BOOLEAN, tr \in BOOLEAN :
           Start(sid, u, tv, tr)
    \/ \E a \in AttIds, pd \in ProbeReports : ProbeClose(a, pd)
    \/ \E a \in AttIds : ProcWrite(a)
    \/ \E a \in AttIds, code \in {"0", "1"} : ProcExit(a, code)
    \/ \E a \in AttIds : ProcClose(a)
    \/ \E a \in AttIds : TimerReady(a)
    \/ \E a \in AttIds : TimerTimeout(a)
    \/ \E sid \in SessionIds : Stop(sid)

FairSpec == Init /\ [][LiveNext]_vars /\ Fairness

\* C35: every /start request with both parameters present is eventually
\* answered (started, resumed or an error), whatever the other requests
\* do, provided probes terminate and timers keep firing.  MaxAtt caps the
\* startEncodingProcess invocations of a behaviour; a behaviour that has
\* used them all is not followed further.
C35_StartAnswered ==
    \A r \in 1..MaxReq :
        (r \in ReqIds /\ reqs[r].obj # 0 /\ ~headersSent(r))
        ~> ((r \in ReqIds /\ headersSent(r)) \/ Len(atts) = MaxAtt)

\* a transcoder that neither wrote the playlist nor exited was killed by the
\* poll's timeout branch, which answered the request
C35_Witness ==
    \E a \in AttIds :
        /\ ~atts[a].direct
        /\ atts[a].st = "dead"
        /\ atts[a].code = "null"
        /\ ~atts[a].timer
        /\ reqs[atts[a].req].res = "error"
        /\ Len(atts) < MaxAtt

\* ------------------------------------------- the subtitle-muxing server
\* the startEncodingProcess invocations of request r
MuxAttemptsOf(r) == {a \in MuxAttIds : mux.atts[a].req = r}

\* C38: in the subtitle-muxing server a transcoder that exits non-zero
\* before the response was sent is retried at most once per /start request.
\* If a subtitle stream was mapped, the exit handler stops the poll of the
\* attempt and starts exactly one attempt, without subtitles, and a success
\* response of a request that was retried carries fallback = true.  If no
\* subtitle stream was mapped, it answers 500 and starts nothing.
C38_RetryOnceWithoutSubtitles ==
    /\ [](\A r \in MuxReqIds :
            /\ Cardinality(MuxAttemptsOf(r)) <= 2
            /\ \A a, b \in MuxAttemptsOf(r) :
                   a < b => /\ mux.reqs[r].subIndex # -1
                            /\ mux.atts[a].currentSubIndex # -1
                            /\ mux.atts[b].currentSubIndex = -1
            /\ (mux.reqs[r].res = "started" /\ Cardinality(MuxAttemptsOf(r)) > 1)
               => mux.reqs[r].fallback)
    /\ [][ \A a \in MuxAttIds :
             LET r == mux.atts[a].req
                 n == Len(mux.atts)
             IN  (MuxClose(a) /\ mux.atts[a].code # "0" /\ ~MuxHeadersSent(r))
                 => IF mux.atts[a].currentSubIndex # -1
                    THEN /\ Len(mux'.atts) = n + 1
                         /\ mux'.atts[n + 1].req = r
                         /\ mux'.atts[n + 1].st = "probing"
                         /\ mux'.atts[n + 1].currentSubIndex = -1
                         /\ mux'.atts[n + 1].isRetry
                         /\ ~mux'.atts[a].timer
                         /\ mux'.reqs = mux.reqs
                    ELSE /\ mux'.reqs[r].res = "500"
                         /\ Len(mux'.atts) = n
                         /\ \A b \in MuxAttemptsOf(r) :
                                /\ mux'.atts[b].st # "probing"
                                /\ ~mux'.atts[b].timer ]_vars

\* one request with a subtitle stream was retried and answered started with
\* fallback = true; a later request without subtitles failed and was
\* answered 500 after its only attempt
C38_Witness ==
    /\ Len(mux.reqs) = 2
    /\ mux.reqs[1].subIndex # -1
    /\ mux.reqs[1].res = "started"
    /\ mux.reqs[1].fallback
    /\ Cardinality(MuxAttemptsOf(1)) = 2
    /\ mux.reqs[2].subIndex = -1
    /\ mux.reqs[2].res = "500"
    /\ \A a \in MuxAttemptsOf(2) : mux.atts[a].st = "closed" /\ mux.atts[a].code = "1"

\* ----------------------------------------------------- the watchdog server
\* C39: in the watchdog server the watchdog kills a running transcoder,
\* and clears its handle, only if no /start and no /ping was received
\* during the WATCHDOG_MS before: a watchdog armed for an earlier stream
\* does not kill the transcoder of a newer /start.
C39_WatchdogKillsOnlyIdle ==
    [][ (/\ DogWatchdog
         /\ dog.ffmpegProcess # 0
         /\ dog.reqs[dog.ffmpegProcess].st = "running")
        => dog.clock - dog.seen >= WATCHDOG_MS ]_vars

====
